---- MODULE Spec2Model ----
(***************************************************************************)
(* typed-routes: the route template engine (createRoute / extend / param / *)
(* opt / rest, match, from, toString) and its parameter types.             *)
(*                                                                         *)
(* A JavaScript string is a sequence of one-character strings.  A          *)
(* JavaScript value is a record of one fixed shape, tagged by t:           *)
(*   "undef" (undefined), "str" (field s), "num" (field n), "arr" (a).     *)
(* A params object is a sequence of entries [k, v] in insertion order.     *)
(***************************************************************************)
EXTENDS Integers, Sequences, FiniteSets

VARIABLES
  route,   \* the template a chain of calls has reached
  pc,      \* "build" while the chain goes on, "done" once it ended
  last,    \* the call that ended the chain, with its outcome
  store,   \* the template objects alive, with the arrays and opts objects they refer to
  call,    \* the last call made on an object of the store, with its outcome
  conv,    \* the last call of a converter's parse or stringify, with its outcome
  legacyRoute,  \* the template a chain of calls of the earlier API has reached
  legacyLast    \* the call of match that ended that chain, with its outcome

vars == <<route, pc, last, store, call, conv, legacyRoute, legacyLast>>

(* ------------------------------ bounds -------------------------------- *)

\* longest template the builder chain grows
MaxParts == 2

\* longest input string handed to match
MaxLen == 4

\* longest sequence supplied under the Rest key of a params object
MaxRest == 2

\* most template objects alive at once
MaxObjs == 3

(* --------------------------- input alphabets --------------------------- *)

\* characters of the input strings: the default delimiter, a letter, a digit
Char == {"/", "x", "1"}

\* literal segments handed to extend
LitSet == {<<"x">>}

\* names handed to param / opt, in the order the chain uses them
ParamNames == {<<"b">>, <<"r", "e", "s", "t">>}

\* converters handed to param / opt / rest
ParamTypes == {"StrParam", "IntParam"}

\* option values handed to createRoute besides "not given"
DelimSet == {<<"x">>}

PrefixSet == {<<>>}

SuffixSet == {<<"x">>}

\* values a params object holds for a StrParam / an IntParam
StrVals == {<<>>, <<"x">>}

IntVals == {0, 12}

(* ------------------------------ values --------------------------------- *)

Undef == [t |-> "undef", s |-> <<>>, n |-> 0, a |-> <<>>]

Str(s) == [t |-> "str", s |-> s, n |-> 0, a |-> <<>>]

Num(n) == [t |-> "num", s |-> <<>>, n |-> n, a |-> <<>>]

Arr(a) == [t |-> "arr", s |-> <<>>, n |-> 0, a |-> a]

\* JavaScript truthiness of undefined or a string: `while (actual)`, `actual && ...`
Truthy(v) == v.t = "str" /\ v.s # <<>>

Max(a, b) == IF a >= b THEN a ELSE b

Min(a, b) == IF a <= b THEN a ELSE b

(* --------------------------- string built-ins -------------------------- *)

\* String.prototype.slice(start, end): negative indices count from the end
Slice(s, start, end) ==
  LET len == Len(s)
      from == IF start < 0 THEN Max(len + start, 0) ELSE Min(start, len)
      to == IF end < 0 THEN Max(len + end, 0) ELSE Min(end, len)
  IN IF from >= to THEN <<>> ELSE SubSeq(s, from + 1, to)

RECURSIVE SplitFrom(_, _, _)
\* the pieces of s from here on, cur being the piece under construction
SplitFrom(s, d, cur) ==
  IF s = <<>> THEN <<cur>>
  ELSE IF Len(s) >= Len(d) /\ SubSeq(s, 1, Len(d)) = d
       THEN <<cur>> \o SplitFrom(SubSeq(s, Len(d) + 1, Len(s)), d, <<>>)
       ELSE SplitFrom(Tail(s), d, Append(cur, Head(s)))

\* String.prototype.split(separator); an empty separator splits into characters
Split(s, d) ==
  IF d = <<>> THEN [i \in 1..Len(s) |-> <<s[i]>>] ELSE SplitFrom(s, d, <<>>)

RECURSIVE Join(_, _)
\* Array.prototype.join(delimiter)
Join(parts, d) ==
  IF parts = <<>> THEN <<>>
  ELSE IF Len(parts) = 1 THEN parts[1]
       ELSE parts[1] \o d \o Join(Tail(parts), d)

(* ----------------------------- param types ----------------------------- *)

Digits == <<"0", "1", "2", "3", "4", "5", "6", "7", "8", "9">>

IsDigit(c) == \E i \in 1..10 : Digits[i] = c

DigitVal(c) == (CHOOSE i \in 1..10 : Digits[i] = c) - 1

RECURSIVE DigitRun(_, _)
\* the value of the longest run of digits s starts with, continuing from acc
DigitRun(s, acc) ==
  IF s = <<>> \/ ~IsDigit(Head(s)) THEN acc
  ELSE DigitRun(Tail(s), 10 * acc + DigitVal(Head(s)))

\* parseInt(s): an optional sign, then the longest run of digits; NaN without one
parseInt(s) ==
  LET neg == s # <<>> /\ Head(s) = "-"
      body == IF s # <<>> /\ Head(s) \in {"-", "+"} THEN Tail(s) ELSE s
  IN IF body = <<>> \/ ~IsDigit(Head(body)) THEN [nan |-> TRUE, n |-> 0]
     ELSE [nan |-> FALSE, n |-> IF neg THEN 0 - DigitRun(body, 0) ELSE DigitRun(body, 0)]

RECURSIVE NatToStr(_)
NatToStr(n) ==
  IF n < 10 THEN <<Digits[n + 1]>> ELSE Append(NatToStr(n \div 10), Digits[(n % 10) + 1])

\* Number.prototype.toString() of an integer
IntToStr(n) == IF n < 0 THEN <<"-">> \o NatToStr(0 - n) ELSE NatToStr(n)

RECURSIVE ToStr(_)
\* the string a value turns into: toString() and join's coercion of a token
ToStr(v) ==
  IF v.t = "str" THEN v.s
  ELSE IF v.t = "num" THEN IntToStr(v.n)
  ELSE IF v.t = "arr" THEN Join([i \in 1..Len(v.a) |-> ToStr(v.a[i])], <<",">>)
  ELSE <<"u", "n", "d", "e", "f", "i", "n", "e", "d">>

\* paramType.parse(s); Undef is the `undefined` a failed parse returns
Parse(paramType, s) ==
  IF paramType = "IntParam"
  THEN LET r == parseInt(s) IN IF r.nan THEN Undef ELSE Num(r.n)
  ELSE Str(s)

\* paramType.stringify(t), as the token join makes of it
Stringify(paramType, v) == ToStr(v)

(* ---------------------------- params objects --------------------------- *)

Keys(obj) == {obj[i].k : i \in 1..Len(obj)}

\* obj[k]; undefined when the key was never assigned
Get(obj, k) ==
  IF k \in Keys(obj) THEN obj[CHOOSE i \in 1..Len(obj) : obj[i].k = k].v ELSE Undef

\* obj[k] = v
Put(obj, k, v) ==
  IF k \in Keys(obj)
  THEN [i \in 1..Len(obj) |-> IF obj[i].k = k THEN [k |-> k, v |-> v] ELSE obj[i]]
  ELSE Append(obj, [k |-> k, v |-> v])

(* ------------------------------- parts --------------------------------- *)

\* a literal part is the string itself
Lit(s) == [type |-> "STRING", name |-> s, required |-> FALSE, paramType |-> "StrParam"]

ParamPart(name, required, paramType) ==
  [type |-> "PARAM", name |-> name, required |-> required, paramType |-> paramType]

RestPart(name, paramType) ==
  [type |-> "REST", name |-> name, required |-> FALSE, paramType |-> paramType]

DEFAULT_ROUTE_OPTS == [delimiter |-> <<"/">>, prefix |-> <<"/">>, suffix |-> <<>>]

(* ------------------------------- match --------------------------------- *)

Absent == [ok |-> FALSE, ret |-> <<>>]

\* Array.prototype.shift: the element taken (undefined on an empty array) ...
ShiftVal(strParts) == IF strParts = <<>> THEN Undef ELSE Str(Head(strParts))

\* ... and the array left
ShiftRest(strParts) == IF strParts = <<>> THEN <<>> ELSE Tail(strParts)

\* StripAffixes without its suffix test: the suffix length is cut off unseen
StripAffixes_NoSuffixTest(opts, val) ==
  IF Slice(val, 0, Len(opts.prefix)) # opts.prefix THEN [ok |-> FALSE, val |-> <<>>]
  ELSE LET v1 == Slice(val, Len(opts.prefix), Len(val))
       IN [ok |-> TRUE, val |-> Slice(v1, 0, 0 - Len(opts.suffix))]

\* the prefix and suffix steps of match: the string left to split, if any
StripAffixes(opts, val) ==
  IF Slice(val, 0, Len(opts.prefix)) # opts.prefix THEN [ok |-> FALSE, val |-> <<>>]
  ELSE LET v1 == Slice(val, Len(opts.prefix), Len(val))
       IN IF Slice(v1, Len(v1) - Len(opts.suffix), Len(v1)) # opts.suffix
          THEN [ok |-> FALSE, val |-> <<>>]
          ELSE [ok |-> TRUE, val |-> Slice(v1, 0, 0 - Len(opts.suffix))]

RECURSIVE RestLoop(_, _, _, _)
\* the loop of a REST part: parse while the segment taken is truthy
RestLoop(paramType, actual, strParts, rest) ==
  IF ~Truthy(actual) THEN [ok |-> TRUE, rest |-> rest, strParts |-> strParts]
  ELSE LET v == Parse(paramType, actual.s)
       IN IF v = Undef THEN [ok |-> FALSE, rest |-> rest, strParts |-> strParts]
          ELSE RestLoop(paramType, ShiftVal(strParts), ShiftRest(strParts), Append(rest, v))

\* `actual && paramType.parse(actual)`
ParseSingle(paramType, actual) ==
  IF actual.t = "undef" THEN Undef
  ELSE IF actual.s = <<>> THEN actual
  ELSE Parse(paramType, actual.s)

RECURSIVE MatchParts(_, _, _, _)
\* the loop over this.parts from part i on, and the final length check
MatchParts(parts, i, strParts, ret) ==
  IF i > Len(parts) THEN (IF Len(strParts) # 0 THEN Absent ELSE [ok |-> TRUE, ret |-> ret])
  ELSE LET expected == parts[i]
           actual == ShiftVal(strParts)
           left == ShiftRest(strParts)
       IN IF expected.type = "REST"
          THEN LET r == RestLoop(expected.paramType, actual, left, <<>>)
               IN IF ~r.ok THEN Absent
                  ELSE MatchParts(parts, i + 1, r.strParts, Put(ret, expected.name, Arr(r.rest)))
          ELSE IF expected.type = "PARAM"
          THEN LET v == ParseSingle(expected.paramType, actual)
               IN IF expected.required /\ v = Undef THEN Absent
                  ELSE MatchParts(parts, i + 1, left, Put(ret, expected.name, v))
          ELSE IF actual # Str(expected.name) THEN Absent
          ELSE MatchParts(parts, i + 1, left, ret)

\* RestRoute.match
match(this, val) ==
  LET s == StripAffixes(this.opts, val)
  IN IF ~s.ok THEN Absent
     ELSE MatchParts(this.parts, 1, Split(s.val, this.opts.delimiter), <<>>)

(* -------------------------------- from --------------------------------- *)

NoError == [err |-> "none", msg |-> <<>>]

\* the TypeError of calling what is not a function
TypeError == [err |-> "TypeError", msg |-> <<>>]

\* an object that finds every method, whatever its prototype
Exposes_WhateverPrototype(proto, method) == TRUE

\* the methods a template object finds along its prototype chain.  Only
\* Route.prototype (and the prototypes it inherits from) carries them; the
\* constructor functions Route, OptRoute and RestRoute carry none of them.
Exposes(proto, method) == proto = "Route.prototype"

\* "Expected array for "
ExpectedArrayFor == <<"E", "x", "p", "e", "c", "t", "e", "d", " ", "a", "r", "r", "a", "y", " ", "f", "o", "r", " ">>

\* "Expected value for "
ExpectedValueFor == <<"E", "x", "p", "e", "c", "t", "e", "d", " ", "v", "a", "l", "u", "e", " ", "f", "o", "r", " ">>

\* Helper function that adds leading and trailing delimiters
join(this, parts) == this.opts.prefix \o Join(parts, this.opts.delimiter) \o this.opts.suffix

RECURSIVE FromParts(_, _, _, _)
\* the loop of from over this.parts from part i on: the tokens, or the error thrown
FromParts(parts, i, params, retParts) ==
  IF i > Len(parts) THEN [thrown |-> NoError, retParts |-> retParts]
  ELSE LET part == parts[i]
           val == Get(params, part.name)
       IN IF part.type = "STRING"
          THEN FromParts(parts, i + 1, params, Append(retParts, part.name))
          ELSE IF part.type = "REST"
          THEN IF val.t = "arr"
               THEN FromParts(parts, i + 1, params,
                      retParts \o [j \in 1..Len(val.a) |-> Stringify(part.paramType, val.a[j])])
               ELSE [thrown |-> [err |-> "Error", msg |-> ExpectedArrayFor \o part.name],
                     retParts |-> retParts]
          ELSE IF val # Undef
          THEN FromParts(parts, i + 1, params, Append(retParts, Stringify(part.paramType, val)))
          ELSE IF part.required = TRUE
          THEN [thrown |-> [err |-> "Error", msg |-> ExpectedValueFor \o part.name],
                retParts |-> retParts]
          ELSE FromParts(parts, i + 1, params, retParts)

\* RestRoute.from
from(this, params) ==
  LET r == FromParts(this.parts, 1, params, <<>>)
  IN IF r.thrown # NoError THEN [thrown |-> r.thrown, str |-> <<>>]
     ELSE IF ~Exposes(this.proto, "join") THEN [thrown |-> TypeError, str |-> <<>>]
     ELSE [thrown |-> NoError, str |-> join(this, r.retParts)]

(* ------------------------------ toString ------------------------------- *)

\* the token toString pushes for one part
PatternToken(part) ==
  IF part.type = "STRING" THEN part.name
  ELSE IF part.type = "REST" THEN <<"*">>
  ELSE <<":">> \o part.name \o (IF part.required THEN <<>> ELSE <<"?">>)

\* RestRoute.toString
toString(this) ==
  IF ~Exposes(this.proto, "join") THEN [thrown |-> TypeError, str |-> <<>>]
  ELSE [thrown |-> NoError,
        str |-> join(this, [i \in 1..Len(this.parts) |-> PatternToken(this.parts[i])])]

(* --------------------- ArrayParam and DateTimeParam -------------------- *)

RECURSIVE ArrayParseLoop(_, _, _)
\* the loop of ArrayParam(p).parse over the pieces left, ret being what is
\* parsed so far: undefined at the first piece that p fails to parse
ArrayParseLoop(p, parts, ret) ==
  IF parts = <<>> THEN Arr(ret)
  ELSE LET t == Parse(p, Head(parts))
       IN IF t = Undef THEN Undef ELSE ArrayParseLoop(p, Tail(parts), Append(ret, t))

\* ArrayParam(p, delimiter).parse
ArrayParam_parse(p, delimiter, s) == ArrayParseLoop(p, Split(s, delimiter), <<>>)

\* ArrayParam(p, delimiter).stringify
ArrayParam_stringify(p, delimiter, t) ==
  Join([i \in 1..Len(t.a) |-> Stringify(p, t.a[i])], delimiter)

\* the delimiter ArrayParam is given when it is passed none
DefaultArrayDelimiter == <<",">>

\* a Date whose time value is n milliseconds
Date(n) == [t |-> "date", s |-> <<>>, n |-> n, a |-> <<>>]

\* the Date of 1 January of year y, 00:00 UTC; but for 1970 its time value
\* lies outside the numbers kept here, and the Date is known by its year
DateOfYear(y) ==
  IF y = 1970 THEN Date(0) ELSE [t |-> "date", s |-> <<"year">>, n |-> y, a |-> <<>>]

\* a Date that an engine's own fallback formats read out of a string; no
\* engine reads a string of digits as a time value
EngineDate == [t |-> "date", s |-> <<"engine">>, n |-> 0, a |-> <<>>]

\* the Date whose time value is NaN
InvalidDate == [t |-> "date", s |-> <<"NaN">>, n |-> 0, a |-> <<>>]

AllDigits(s) == s # <<>> /\ \A i \in 1..Len(s) : IsDigit(s[i])

\* new Date(s) for a string s, which is Date.parse(s): the Dates an engine may
\* make of it.  Four digits are the year form of the date-time string format;
\* what any other string here yields is up to the engine, which rejects it
\* or, when it holds a digit, may read a date of its own formats out of it.
NewDate(s) ==
  IF Len(s) = 4 /\ AllDigits(s) THEN {DateOfYear(DigitRun(s, 0))}
  ELSE IF \E i \in 1..Len(s) : IsDigit(s[i]) THEN {InvalidDate, EngineDate}
  ELSE {InvalidDate}

\* DateTimeParam.parse: each of the values it may return
DateTimeParam_parse(s) == {IF d = InvalidDate THEN Undef ELSE d : d \in NewDate(s)}

\* DateTimeParam.stringify
DateTimeParam_stringify(d) == IntToStr(d.n)

\* the converters: ArrayParam(p, delimiter) and DateTimeParam
ArrayParam(p, delimiter) ==
  [name |-> "ArrayParam", inner |-> p,
   delimiter |-> IF delimiter.given THEN delimiter.value ELSE DefaultArrayDelimiter]

DateTimeParam == [name |-> "DateTimeParam", inner |-> "none", delimiter |-> <<>>]

\* c.parse(s): each of the values it may return
ParseOutcomes(c, s) ==
  IF c.name = "ArrayParam" THEN {ArrayParam_parse(c.inner, c.delimiter, s)}
  ELSE DateTimeParam_parse(s)

\* c.stringify(v)
StringifyOf(c, v) ==
  IF c.name = "ArrayParam" THEN ArrayParam_stringify(c.inner, c.delimiter, v)
  ELSE DateTimeParam_stringify(v)

\* no converter called yet
NoConversion == [c |-> DateTimeParam, op |-> "none", str |-> <<>>, val |-> Undef, orig |-> Undef]

(* ------------- the earlier API: opt(name, fallback), match ------------- *)

\* a part of the earlier API: { name, param?, required?: boolean|string }, a
\* string under required being the fallback
LegacyLit(name) == [name |-> name, param |-> FALSE, required |-> "false", fallback |-> <<>>]

LegacyParam(name) == [name |-> name, param |-> TRUE, required |-> "true", fallback |-> <<>>]

\* opt(name, fallback?): required is the fallback if it is a string, false otherwise
LegacyOpt(name, fallback) ==
  [name |-> name, param |-> TRUE,
   required |-> IF fallback.given THEN "string" ELSE "false",
   fallback |-> IF fallback.given THEN fallback.value ELSE <<>>]

LEGACY_DEFAULT_ROUTE_OPTS == [separator |-> <<"/">>, leadingSlash |-> TRUE, trailingSlash |-> FALSE]

\* createRoute without a first part, without options
NoFirst == [given |-> FALSE, value |-> <<>>]

NoLegacyOpts ==
  [separator |-> [given |-> FALSE, value |-> <<>>],
   leadingSlash |-> [given |-> FALSE, value |-> FALSE],
   trailingSlash |-> [given |-> FALSE, value |-> FALSE]]

\* the constructor of the earlier API: an optional first literal, the options
\* given over the defaults
LegacyRoute(first, opts) ==
  [opts |-> [f \in {"separator", "leadingSlash", "trailingSlash"} |->
               IF opts[f].given THEN opts[f].value ELSE LEGACY_DEFAULT_ROUTE_OPTS[f]],
   parts |-> IF first.given THEN <<LegacyLit(first.value)>> ELSE <<>>]

\* add: clone (with new part)
LegacyAdd(this, part) == [this EXCEPT !.parts = @ \o <<part>>]

\* the string match splits: a leading and a trailing separator taken off
LegacyStrip(opts, val) ==
  LET separator == opts.separator
      v1 == IF opts.leadingSlash /\ Slice(val, 0, Len(separator)) = separator
            THEN Slice(val, 1, Len(val)) ELSE val
  IN IF opts.trailingSlash /\ Slice(v1, Len(v1) - Len(separator), Len(v1)) = separator
     THEN Slice(v1, 0, -1) ELSE v1

\* null
LegacyNull == [ok |-> FALSE, ret |-> <<>>]

\* the step of match for a param, with a fallback treated as no fallback
LegacyParamStep_FallbackDropped(expected, actual, ret) ==
  IF Truthy(actual) THEN [ok |-> TRUE, ret |-> Put(ret, expected.name, actual)]
  ELSE IF expected.required = "true" THEN LegacyNull
  ELSE [ok |-> TRUE, ret |-> ret]

\* the step of match for a param: the segment, or else the fallback, or else
\* null for a required param
LegacyParamStep(expected, actual, ret) ==
  IF Truthy(actual) THEN [ok |-> TRUE, ret |-> Put(ret, expected.name, actual)]
  ELSE IF expected.required = "string"
  THEN [ok |-> TRUE, ret |-> Put(ret, expected.name, Str(expected.fallback))]
  ELSE IF expected.required = "true" THEN LegacyNull
  ELSE [ok |-> TRUE, ret |-> ret]

RECURSIVE LegacyMatchParts(_, _, _, _)
\* the loop of match over this.parts from part i on
LegacyMatchParts(parts, i, strParts, ret) ==
  IF i > Len(parts) THEN [ok |-> TRUE, ret |-> ret]
  ELSE LET expected == parts[i]
           actual == IF i <= Len(strParts) THEN Str(strParts[i]) ELSE Undef
       IN IF expected.param
          THEN LET r == LegacyParamStep(expected, actual, ret)
               IN IF ~r.ok THEN LegacyNull ELSE LegacyMatchParts(parts, i + 1, strParts, r.ret)
          ELSE IF actual # Str(expected.name) THEN LegacyNull
          ELSE LegacyMatchParts(parts, i + 1, strParts, ret)

\* RouteCls.match
LegacyMatch(this, val) ==
  LegacyMatchParts(this.parts, 1, Split(LegacyStrip(this.opts, val), <<"/">>), <<>>)

\* no call of match yet
NoLegacyCall == [op |-> "none", val |-> <<>>, res |-> LegacyNull]

(* ------------------------------- builder ------------------------------- *)

\* the class a template is declared to be: the return types of param, opt and rest
Kind(proto) ==
  IF proto \in {"Route.prototype", "Route"} THEN "Route" ELSE proto

\* add with the new part put before the parts of this
add_PartInFront(this, part, proto) ==
  [opts |-> this.opts, parts |-> <<part>> \o this.parts, proto |-> proto]

\* OptRoute.add: clone (with new part)
add(this, part, proto) ==
  [opts |-> this.opts, parts |-> this.parts \o <<part>>, proto |-> proto]

\* this.add(part, proto): add is looked up along the prototype chain of this
thisAdd(this, part, proto) ==
  IF Exposes(this.proto, "add")
  THEN [thrown |-> NoError, t |-> add(this, part, proto)]
  ELSE [thrown |-> TypeError, t |-> this]

RECURSIVE extend(_, _)
\* Route.extend
extend(this, names) ==
  IF names = <<>> THEN [thrown |-> NoError, t |-> this]
  ELSE LET r == thisAdd(this, Lit(Head(names)), this.proto)
       IN IF r.thrown # NoError THEN r ELSE extend(r.t, Tail(names))

\* an argument of a builder call: left out, a string, or a converter
NoArg == [kind |-> "undefined", str |-> <<>>, paramType |-> "none"]

StrArg(s) == [kind |-> "string", str |-> s, paramType |-> "none"]

TypeArg(p) == [kind |-> "paramType", str |-> <<>>, paramType |-> p]

\* paramType || StrParam
OrStrParam(arg) == IF arg.kind = "paramType" THEN arg.paramType ELSE "StrParam"

\* Route.param
param(this, name, paramType) ==
  thisAdd(this, ParamPart(name, TRUE, OrStrParam(paramType)), "Route")

\* OptRoute.opt
opt(this, name, paramType) ==
  thisAdd(this, ParamPart(name, FALSE, OrStrParam(paramType)), "OptRoute")

\* the name rest gives its part when none is passed
DefaultRestName == <<"r", "e", "s", "t">>

\* OptRoute.rest
rest(this, first, second) ==
  LET name == IF first.kind = "string" THEN first.str ELSE <<>>
      paramType == IF first.kind = "string" THEN second
                   ELSE IF first.kind = "paramType" THEN first
                   ELSE NoArg
  IN thisAdd(this, RestPart(IF name # <<>> THEN name ELSE DefaultRestName,
                            OrStrParam(paramType)),
             "RestRoute")

\* Route's constructor, reached through createRoute: the options given over the defaults
createRoute(opts) ==
  [opts |-> [f \in {"delimiter", "prefix", "suffix"} |->
               IF opts[f].given THEN opts[f].value ELSE DEFAULT_ROUTE_OPTS[f]],
   parts |-> <<>>,
   proto |-> "Route.prototype"]

(* ------------------------------- inputs -------------------------------- *)

NotGiven == [given |-> FALSE, value |-> <<>>]

Given(set) == {NotGiven} \cup {[given |-> TRUE, value |-> v] : v \in set}

\* the options objects handed to createRoute
OptsInputs ==
  {[delimiter |-> d, prefix |-> p, suffix |-> x] :
     d \in Given(DelimSet), p \in Given(PrefixSet), x \in Given(SuffixSet)}

SeqsUpTo(set, n) == UNION {[1..k -> set] : k \in 0..n}

\* the strings handed to match
Paths == SeqsUpTo(Char, MaxLen)

\* the two ways of invoking a method on a template t: t.m(...) through the
\* prototype chain, or Class.prototype.m.call(t, ...) with the receiver explicit
Forms == {"method", "call"}

\* the converter arguments of param, opt and rest: one of the converters, or none
TypeArgs == {NoArg} \cup {TypeArg(p) : p \in ParamTypes}

\* the first arguments of rest: nothing, a name, or a converter
RestFirstArgs == TypeArgs \cup {StrArg(n) : n \in ParamNames}

TypedVals(paramType) ==
  IF paramType = "IntParam" THEN {Num(n) : n \in IntVals} ELSE {Str(s) : s \in StrVals}

\* the values a params object may hold under the name of a part
ValuesFor(part) ==
  IF part.type = "REST"
  THEN {Arr(a) : a \in SeqsUpTo(TypedVals(part.paramType), MaxRest)} \cup {Str(<<"x">>)}
  ELSE TypedVals(part.paramType) \cup (IF part.required THEN {} ELSE {Undef})

RECURSIVE ParamsFor(_, _)
\* the params objects handed to from: each key of the template, from part i on,
\* either left out or holding one of its values
ParamsFor(parts, i) ==
  IF i > Len(parts) THEN {<<>>}
  ELSE LET tails == ParamsFor(parts, i + 1)
       IN IF parts[i].type = "STRING" THEN tails
          ELSE tails \cup {<<[k |-> parts[i].name, v |-> v]>> \o t :
                             v \in ValuesFor(parts[i]), t \in tails}

(* ------------------------- templates as objects ------------------------ *)

\* no object yet
EmptyStore == [objs |-> <<>>, arrays |-> <<>>, opts |-> <<>>]

\* the template an object of the store is: its opts and parts properties
\* followed to what they refer to
Deref(h, i) ==
  [opts |-> h.opts[h.objs[i].opts],
   parts |-> h.arrays[h.objs[i].parts],
   proto |-> h.objs[i].proto]

\* new Route(opts): an object with a fresh opts object and a fresh, empty parts
\* array; born keeps what the object was when it was created
New(h, opts) ==
  LET t == createRoute(opts)
  IN [objs |-> Append(h.objs, [opts |-> Len(h.opts) + 1, parts |-> Len(h.arrays) + 1,
                               proto |-> t.proto, held |-> TRUE,
                               born |-> [opts |-> t.opts, parts |-> t.parts]]),
      arrays |-> Append(h.arrays, t.parts),
      opts |-> Append(h.opts, t.opts)]

\* OptRoute.add on the object this, with the clone's parts kept in the array
\* of this, the part pushed onto it
Create_PushInPlace(h, this, part, proto) ==
  LET t == add(Deref(h, this), part, proto)
  IN [h EXCEPT !.objs = Append(@, [opts |-> h.objs[this].opts, parts |-> h.objs[this].parts,
                                   proto |-> proto, held |-> FALSE,
                                   born |-> [opts |-> t.opts, parts |-> t.parts]]),
               !.arrays[h.objs[this].parts] = t.parts]

\* OptRoute.add on the object this: Object.create(proto, ...) makes an object
\* whose opts is the opts object of this and whose parts is the new array
\* that this.parts.concat([part]) returns
Create(h, this, part, proto) ==
  LET t == add(Deref(h, this), part, proto)
  IN [h EXCEPT !.objs = Append(@, [opts |-> h.objs[this].opts, parts |-> Len(h.arrays) + 1,
                                   proto |-> proto, held |-> FALSE,
                                   born |-> [opts |-> t.opts, parts |-> t.parts]]),
               !.arrays = Append(@, t.parts)]

RECURSIVE Creates(_, _, _, _)
\* the calls of add a builder method makes, one per part, each on the object
\* the one before returned (the loop of extend; a single call in param, opt, rest)
Creates(h, this, parts, proto) ==
  IF parts = <<>> THEN [h |-> h, ret |-> this]
  ELSE Creates(Create(h, this, Head(parts), proto), Len(h.objs) + 1, Tail(parts), proto)

\* no call made yet
NoObjCall ==
  [op |-> "none", this |-> 0, ret |-> 0, names |-> <<>>, first |-> NoArg, second |-> NoArg,
   thrown |-> NoError, val |-> <<>>, params |-> <<>>, res |-> Absent, str |-> <<>>]

(* ------------------------------- actions ------------------------------- *)

NoCall == [op |-> "none", val |-> <<>>, params |-> <<>>, thrown |-> NoError,
           res |-> Absent, str |-> <<>>]

\* t.m(...) finds m along the prototype chain of t; Class.prototype.m.call(t, ...)
\* needs no lookup
Resolves(form, method) == form = "call" \/ Exposes(route.proto, method)

\* a builder call on the template of the chain: the chain goes on with the
\* template returned, or ends with the TypeError thrown
Build(form, method, r) ==
  /\ pc = "build"
  /\ Len(r.t.parts) <= MaxParts
  /\ IF Resolves(form, method) /\ r.thrown = NoError
     THEN route' = r.t /\ UNCHANGED <<pc, last>>
     ELSE /\ route' = route
          /\ pc' = "done"
          /\ last' = [NoCall EXCEPT !.op = method, !.thrown = TypeError]
  /\ UNCHANGED <<store, call, conv, legacyRoute, legacyLast>>

Extend(form, names) == Build(form, "extend", extend(route, names))

Param(form, name, paramType) == Build(form, "param", param(route, name, paramType))

Opt(form, name, paramType) == Build(form, "opt", opt(route, name, paramType))

Rest(form, first, second) == Build(form, "rest", rest(route, first, second))

\* a query call on the template of the chain
Query(form, method, result) ==
  /\ pc = "build"
  /\ pc' = "done"
  /\ route' = route
  /\ last' = IF Resolves(form, method) THEN result
             ELSE [NoCall EXCEPT !.op = method, !.thrown = TypeError]
  /\ UNCHANGED <<store, call, conv, legacyRoute, legacyLast>>

Match(form, val) ==
  Query(form, "match", [NoCall EXCEPT !.op = "match", !.val = val, !.res = match(route, val)])

From(form, params) ==
  LET r == from(route, params)
  IN Query(form, "from",
           [NoCall EXCEPT !.op = "from", !.params = params, !.thrown = r.thrown, !.str = r.str])

ToString(form) ==
  LET r == toString(route)
  IN Query(form, "toString",
           [NoCall EXCEPT !.op = "toString", !.thrown = r.thrown, !.str = r.str])

Init ==
  /\ route \in {createRoute(o) : o \in OptsInputs}
  /\ pc = "build"
  /\ last = NoCall
  /\ store = EmptyStore
  /\ call = NoObjCall
  /\ conv = NoConversion
  /\ legacyRoute = LegacyRoute(NoFirst, NoLegacyOpts)
  /\ legacyLast = NoLegacyCall

Next ==
  \/ \E form \in Forms, names \in SeqsUpTo(LitSet, 2) \ {<<>>} : Extend(form, names)
  \/ \E form \in Forms, name \in ParamNames, paramType \in TypeArgs :
       Param(form, name, paramType)
  \/ \E form \in Forms, name \in ParamNames, paramType \in TypeArgs :
       Opt(form, name, paramType)
  \/ \E form \in Forms, first \in RestFirstArgs, second \in TypeArgs :
       Rest(form, first, second)
  \/ \E val \in Paths, form \in Forms : Match(form, val)
  \/ \E params \in ParamsFor(route.parts, 1), form \in Forms : From(form, params)
  \/ \E form \in Forms : ToString(form)

Spec == Init /\ [][Next]_vars

TypeOK ==
  /\ pc \in {"build", "done"}
  /\ Len(route.parts) <= MaxParts

(* ---------------------- calls on the objects alive --------------------- *)

\* the objects the program holds: the root and what the builder calls returned
Held == {i \in 1..Len(store.objs) : store.objs[i].held}

\* a builder call c on the object this, r being what the method computes on
\* the template of this: the objects add creates join the store and the last
\* one is returned, or the TypeError is thrown and ends the run
ObjBuild(this, c, r) ==
  /\ pc = "build"
  /\ this \in Held
  /\ IF Exposes(store.objs[this].proto, c.op) /\ r.thrown = NoError
     THEN LET old == Deref(store, this).parts
              made == Creates(store, this,
                              SubSeq(r.t.parts, Len(old) + 1, Len(r.t.parts)), r.t.proto)
          IN /\ Len(made.h.objs) <= MaxObjs
             /\ store' = [made.h EXCEPT !.objs[made.ret].held = TRUE]
             /\ call' = [c EXCEPT !.this = this, !.ret = made.ret]
             /\ pc' = pc
     ELSE /\ store' = store
          /\ call' = [c EXCEPT !.this = this, !.thrown = TypeError]
          /\ pc' = "done"
  /\ UNCHANGED <<route, last, conv, legacyRoute, legacyLast>>

ObjExtend(this, names) ==
  ObjBuild(this, [NoObjCall EXCEPT !.op = "extend", !.names = names],
           extend(Deref(store, this), names))

ObjParam(this, name, paramType) ==
  ObjBuild(this, [NoObjCall EXCEPT !.op = "param", !.first = StrArg(name), !.second = paramType],
           param(Deref(store, this), name, paramType))

ObjOpt(this, name, paramType) ==
  ObjBuild(this, [NoObjCall EXCEPT !.op = "opt", !.first = StrArg(name), !.second = paramType],
           opt(Deref(store, this), name, paramType))

ObjRest(this, first, second) ==
  ObjBuild(this, [NoObjCall EXCEPT !.op = "rest", !.first = first, !.second = second],
           rest(Deref(store, this), first, second))

\* a query call c on the object this: match, from and toString read the
\* template and write to nothing but their own locals, so that the calls
\* after a query find the store the calls before it left
ObjQuery(this, form, c) ==
  /\ pc = "build"
  /\ pc' = "done"
  /\ this \in Held
  /\ store' = store
  /\ call' = IF form = "call" \/ Exposes(store.objs[this].proto, c.op)
             THEN [c EXCEPT !.this = this]
             ELSE [NoObjCall EXCEPT !.op = c.op, !.this = this, !.thrown = TypeError]
  /\ UNCHANGED <<route, last, conv, legacyRoute, legacyLast>>

ObjMatch(this, form, val) ==
  ObjQuery(this, form, [NoObjCall EXCEPT !.op = "match", !.val = val,
                                         !.res = match(Deref(store, this), val)])

ObjFrom(this, form, params) ==
  LET r == from(Deref(store, this), params)
  IN ObjQuery(this, form, [NoObjCall EXCEPT !.op = "from", !.params = params,
                                            !.thrown = r.thrown, !.str = r.str])

ObjToString(this, form) ==
  LET r == toString(Deref(store, this))
  IN ObjQuery(this, form, [NoObjCall EXCEPT !.op = "toString",
                                            !.thrown = r.thrown, !.str = r.str])

\* the options the root is created with
RootOpts == {o \in OptsInputs : ~o.delimiter.given /\ ~o.prefix.given}

\* the strings handed to match on an object of the store
ObjPaths == {<<"/">>, <<"/", "x">>, <<"/", "1", "x">>, <<"/", "x", "/", "1">>}

\* the names and converters handed to param, opt and rest on an object of the store
ObjNames == {<<"b">>}

ObjTypeArgs == {NoArg, TypeArg("IntParam")}

ObjRestFirstArgs == ObjTypeArgs \cup {StrArg(n) : n \in ObjNames}

ObjInit ==
  /\ store \in {New(EmptyStore, o) : o \in RootOpts}
  /\ call = NoObjCall
  /\ route = createRoute([delimiter |-> NotGiven, prefix |-> NotGiven, suffix |-> NotGiven])
  /\ pc = "build"
  /\ last = NoCall
  /\ conv = NoConversion
  /\ legacyRoute = LegacyRoute(NoFirst, NoLegacyOpts)
  /\ legacyLast = NoLegacyCall

ObjNext ==
  \/ \E this \in 1..MaxObjs, names \in SeqsUpTo(LitSet, 2) \ {<<>>} : ObjExtend(this, names)
  \/ \E this \in 1..MaxObjs, name \in ObjNames, paramType \in ObjTypeArgs :
       ObjParam(this, name, paramType)
  \/ \E this \in 1..MaxObjs, name \in ObjNames, paramType \in ObjTypeArgs :
       ObjOpt(this, name, paramType)
  \/ \E this \in 1..MaxObjs, first \in ObjRestFirstArgs, second \in ObjTypeArgs :
       ObjRest(this, first, second)
  \/ \E this \in 1..MaxObjs, form \in Forms, val \in ObjPaths : ObjMatch(this, form, val)
  \/ \E this \in Held, form \in Forms :
       \E params \in ParamsFor(Deref(store, this).parts, 1) : ObjFrom(this, form, params)
  \/ \E this \in 1..MaxObjs, form \in Forms : ObjToString(this, form)

ObjSpec == ObjInit /\ [][ObjNext]_vars

(* ------------------------ calls of the converters ----------------------- *)

\* the characters of the strings handed to ArrayParam(...).parse
ArrayChar == {"1", "b", ",", ";"}

\* the characters of the strings handed to DateTimeParam.parse
DateChar == {"0", "1", "7", "9", "x"}

\* the string of the repository's test of DateTimeParam
TestTimestamp == <<"1", "2", "3", "4", "5", "6", "7", "8", "9", "0", "0", "0", "0">>

ArrayParams ==
  {ArrayParam(p, d) : p \in ParamTypes, d \in Given({<<";">>})}

\* the strings handed to c.parse
StringsFor(c) ==
  IF c.name = "ArrayParam" THEN SeqsUpTo(ArrayChar, MaxLen)
  ELSE SeqsUpTo(DateChar, MaxLen) \cup {TestTimestamp}

\* the time values of the Dates handed to DateTimeParam.stringify
TimeVals == {0, 5, 12, 1970, 2001}

\* the values handed to c.stringify
ValuesOf(c) ==
  IF c.name = "ArrayParam"
  THEN {Arr(a) : a \in SeqsUpTo(IF c.inner = "IntParam" THEN {Num(1), Num(12)}
                                ELSE {Str(<<>>), Str(<<"b">>)}, MaxRest)}
  ELSE {Date(n) : n \in TimeVals}

\* c.parse(s)
ConvParse(c, s) ==
  /\ conv.op = "none"
  /\ \E v \in ParseOutcomes(c, s) :
       conv' = [c |-> c, op |-> "parse", str |-> s, val |-> v, orig |-> Undef]
  /\ UNCHANGED <<route, pc, last, store, call, legacyRoute, legacyLast>>

\* c.stringify(v)
ConvStringify(c, v) ==
  /\ conv.op = "none"
  /\ conv' = [c |-> c, op |-> "stringify", str |-> StringifyOf(c, v), val |-> v, orig |-> Undef]
  /\ UNCHANGED <<route, pc, last, store, call, legacyRoute, legacyLast>>

\* c.parse(c.stringify(v)): parse applied to what stringify returned
ConvReparse ==
  /\ conv.op = "stringify"
  /\ \E v \in ParseOutcomes(conv.c, conv.str) :
       conv' = [conv EXCEPT !.op = "reparse", !.val = v, !.orig = conv.val]
  /\ UNCHANGED <<route, pc, last, store, call, legacyRoute, legacyLast>>

ConvInit ==
  /\ conv = NoConversion
  /\ route = createRoute([delimiter |-> NotGiven, prefix |-> NotGiven, suffix |-> NotGiven])
  /\ pc = "done"
  /\ last = NoCall
  /\ store = EmptyStore
  /\ call = NoObjCall
  /\ legacyRoute = LegacyRoute(NoFirst, NoLegacyOpts)
  /\ legacyLast = NoLegacyCall

ConvNext ==
  \/ \E c \in ArrayParams \cup {DateTimeParam} : \E s \in StringsFor(c) : ConvParse(c, s)
  \/ \E c \in ArrayParams \cup {DateTimeParam} : \E v \in ValuesOf(c) : ConvStringify(c, v)
  \/ ConvReparse

ConvSpec == ConvInit /\ [][ConvNext]_vars

(* ------------------------ calls of the earlier API ---------------------- *)

\* the fallback handed to opt, if any
Fallbacks == Given({<<"1">>})

\* the first part and the options handed to createRoute
LegacyFirsts == Given(LitSet)

LegacyOptsInputs ==
  {[separator |-> x, leadingSlash |-> l, trailingSlash |-> t] :
     x \in Given(DelimSet),
     l \in {[given |-> FALSE, value |-> FALSE], [given |-> TRUE, value |-> FALSE]},
     t \in {[given |-> FALSE, value |-> FALSE], [given |-> TRUE, value |-> TRUE]}}

\* the name the next param / opt of the chain is given
NextLegacyName(this) ==
  <<"k">> \o NatToStr(Cardinality({i \in 1..Len(this.parts) : this.parts[i].param}))

\* a builder call of the earlier API on the template of the chain
LegacyBuild(part) ==
  /\ legacyLast.op = "none"
  /\ Len(legacyRoute.parts) < MaxParts
  /\ legacyRoute' = LegacyAdd(legacyRoute, part)
  /\ UNCHANGED <<route, pc, last, store, call, conv, legacyLast>>

LegacyExtendCall(name) == LegacyBuild(LegacyLit(name))

LegacyParamCall == LegacyBuild(LegacyParam(NextLegacyName(legacyRoute)))

LegacyOptCall(fallback) == LegacyBuild(LegacyOpt(NextLegacyName(legacyRoute), fallback))

LegacyMatchCall(val) ==
  /\ legacyLast.op = "none"
  /\ legacyLast' = [op |-> "match", val |-> val, res |-> LegacyMatch(legacyRoute, val)]
  /\ UNCHANGED <<route, pc, last, store, call, conv, legacyRoute>>

LegacyInit ==
  /\ legacyRoute \in {LegacyRoute(f, o) : f \in LegacyFirsts, o \in LegacyOptsInputs}
  /\ legacyLast = NoLegacyCall
  /\ route = createRoute([delimiter |-> NotGiven, prefix |-> NotGiven, suffix |-> NotGiven])
  /\ pc = "done"
  /\ last = NoCall
  /\ store = EmptyStore
  /\ call = NoObjCall
  /\ conv = NoConversion

LegacyNext ==
  \/ \E name \in LitSet : LegacyExtendCall(name)
  \/ LegacyParamCall
  \/ \E fallback \in Fallbacks : LegacyOptCall(fallback)
  \/ \E val \in Paths : LegacyMatchCall(val)

LegacySpec == LegacyInit /\ [][LegacyNext]_vars

(* ----------------------- vocabulary of the claims ---------------------- *)

StartsWith(s, p) == Len(s) >= Len(p) /\ SubSeq(s, 1, Len(p)) = p

EndsWith(s, x) == Len(s) >= Len(x) /\ SubSeq(s, Len(s) - Len(x) + 1, Len(s)) = x

\* s without its first n characters
DropFirst(s, n) == SubSeq(s, n + 1, Len(s))

\* s without its last n characters
DropLast(s, n) == SubSeq(s, 1, Len(s) - n)

\* a call of match whose body ran and returned
MatchRan == last.op = "match" /\ last.thrown = NoError

\* a call of from whose body ran and returned a string
FromRan == last.op = "from" /\ last.thrown = NoError

\* the path of the last match has the prefix, and the suffix after it
HasAffixes ==
  /\ StartsWith(last.val, route.opts.prefix)
  /\ EndsWith(DropFirst(last.val, Len(route.opts.prefix)), route.opts.suffix)

\* the segments the last match split its stripped string into
Segs == Split(StripAffixes(route.opts, last.val).val, route.opts.delimiter)

HasRest == \E i \in 1..Len(route.parts) : route.parts[i].type = "REST"

IsParam(i, required) ==
  route.parts[i].type = "PARAM" /\ route.parts[i].required = required

(* ------------------------------- claims -------------------------------- *)

\* the value a key holds after a round trip through its converter
Reparse(paramType, v) ==
  IF v.t = "arr"
  THEN Arr([j \in 1..Len(v.a) |-> Parse(paramType, Stringify(paramType, v.a[j]))])
  ELSE Parse(paramType, Stringify(paramType, v))

RECURSIVE Emitted(_, _, _)
\* the keys of params that from emits, in part order, each with its value reparsed
Emitted(parts, i, params) ==
  IF i > Len(parts) THEN <<>>
  ELSE IF parts[i].type = "STRING" \/ Get(params, parts[i].name) = Undef
       THEN Emitted(parts, i + 1, params)
       ELSE <<[k |-> parts[i].name,
               v |-> Reparse(parts[i].paramType, Get(params, parts[i].name))]>>
            \o Emitted(parts, i + 1, params)

\* C1: round trip. Whenever from renders a params object (every required key
\* supplied, a sequence under the Rest key, any of the optional keys), match
\* of the rendered string succeeds and returns exactly the keys from emitted,
\* each holding parse(stringify(value)).
C1_RoundTrip ==
  FromRan =>
    match(route, last.str) = [ok |-> TRUE, ret |-> Emitted(route.parts, 1, last.params)]

\* C2: prefix/suffix stripping is exact. For a path that starts with the prefix
\* and whose remainder ends with the suffix, the string match goes on to split
\* is the path without that prefix and that suffix:
\* prefix + stripped + suffix = path, the empty prefix and suffix included.
C2_StripExact ==
  (MatchRan /\ HasAffixes) =>
    LET s == StripAffixes(route.opts, last.val)
    IN s.ok /\ route.opts.prefix \o s.val \o route.opts.suffix = last.val

TrueSegs ==
  Split(DropLast(DropFirst(last.val, Len(route.opts.prefix)), Len(route.opts.suffix)),
        route.opts.delimiter)

\* C4: over-match. A template without a Rest part returns absent for every
\* path that, prefix and suffix removed, has more delimiter-separated segments
\* than the template has parts (a trailing delimiter makes an empty segment).
C4_OverMatchAbsent ==
  (MatchRan /\ HasAffixes /\ ~HasRest /\ Len(TrueSegs) > Len(route.parts)) =>
    last.res = Absent

\* C5: required params. match succeeds only if at the position of each
\* required param there is a segment that the part's converter parses, and
\* the value under the param's name is that parse result (a required IntParam
\* key never holds anything but an integer).
C5_RequiredParsed ==
  (MatchRan /\ last.res.ok) =>
    \A i \in 1..Len(route.parts) :
      IsParam(i, TRUE) =>
        /\ i <= Len(Segs)
        /\ Parse(route.parts[i].paramType, Segs[i]) # Undef
        /\ Get(last.res.ret, route.parts[i].name) = Parse(route.parts[i].paramType, Segs[i])

\* C6: a segment at the position of an optional param that the part's
\* converter fails to parse makes match return absent for the whole path.
C6_OptionalMalformedAbsent ==
  (MatchRan /\ \E i \in 1..Len(route.parts) :
                 /\ IsParam(i, FALSE)
                 /\ i <= Len(Segs)
                 /\ Parse(route.parts[i].paramType, Segs[i]) = Undef) =>
    last.res = Absent

\* the template of the chain cut down to its first n parts
Truncated(n) == [route EXCEPT !.parts = SubSeq(route.parts, 1, n)]

\* C7: optional-missing tolerance. When the parts after the first k are all
\* optional params (no Rest) and the path, of k segments, matches the first k
\* parts, match succeeds and its result has no entry for the omitted names.
C7_OptionalMissing ==
  (/\ MatchRan
   /\ ~HasRest
   /\ Len(Segs) < Len(route.parts)
   /\ \A j \in (Len(Segs) + 1)..Len(route.parts) : IsParam(j, FALSE)
   /\ match(Truncated(Len(Segs)), last.val).ok) =>
    /\ last.res.ok
    /\ \A j \in (Len(Segs) + 1)..Len(route.parts) :
         route.parts[j].name \notin Keys(last.res.ret)

\* the index of the Rest part that ends the template, 0 without one
RestAt ==
  IF route.parts # <<>> /\ route.parts[Len(route.parts)].type = "REST"
  THEN Len(route.parts) ELSE 0

\* the raw segments from the Rest position on
Remaining == SubSeq(Segs, RestAt, Len(Segs))

\* C8: the Rest part. Once the parts before it have matched, match parses
\* every remaining raw segment (the empty ones too) with the Rest converter,
\* in order; it returns absent if one fails to parse and otherwise records
\* the whole sequence, empty when no segment remains, under the Rest name.
C8_RestConsumesAll ==
  (/\ MatchRan
   /\ RestAt > 0
   /\ MatchParts(SubSeq(route.parts, 1, RestAt - 1), 1,
                 SubSeq(Segs, 1, Min(RestAt - 1, Len(Segs))), <<>>).ok) =>
    LET paramType == route.parts[RestAt].paramType
    IN IF \E j \in 1..Len(Remaining) : Parse(paramType, Remaining[j]) = Undef
       THEN last.res = Absent
       ELSE /\ last.res.ok
            /\ Get(last.res.ret, route.parts[RestAt].name)
                 = Arr([j \in 1..Len(Remaining) |-> Parse(paramType, Remaining[j])])

\* C9: match never raises. Whatever template the builder returned and
\* whatever the input string, a call of match returns a mapping or absent.
C9_MatchNeverThrows ==
  last.op = "match" => last.thrown = NoError

\* the tokens one part contributes to the rendering of params
TokensOf(part, params) ==
  LET val == Get(params, part.name)
  IN IF part.type = "STRING" THEN <<part.name>>
     ELSE IF part.type = "REST"
     THEN [j \in 1..Len(val.a) |-> Stringify(part.paramType, val.a[j])]
     ELSE IF val = Undef THEN <<>>
     ELSE <<Stringify(part.paramType, val)>>

RECURSIVE Flatten(_)
Flatten(seqs) == IF seqs = <<>> THEN <<>> ELSE Head(seqs) \o Flatten(Tail(seqs))

\* the parts of the template that the params of the last from call leave
\* without a usable value: a required param whose key holds nothing, or the
\* Rest part whose key holds no sequence
Offending ==
  {i \in 1..Len(route.parts) :
     \/ IsParam(i, TRUE) /\ Get(last.params, route.parts[i].name) = Undef
     \/ route.parts[i].type = "REST" /\ Get(last.params, route.parts[i].name).t # "arr"}

\* C10: from renders prefix + tokens joined by the delimiter + suffix, the
\* tokens being, in part order: each literal as it is, stringify(value) for
\* each param whose key holds a value, nothing for an optional param whose key
\* holds none, and one stringify(element) per element of the Rest sequence.
C10_FromRenders ==
  (last.op = "from" /\ Offending = {}) =>
    /\ last.thrown = NoError
    /\ last.str = route.opts.prefix
                  \o Join(Flatten([i \in 1..Len(route.parts) |->
                                     TokensOf(route.parts[i], last.params)]),
                          route.opts.delimiter)
                  \o route.opts.suffix

\* C11: from raises an error exactly when params lacks the key of some
\* required param or the Rest key holds no sequence, and the message of the
\* error ends with the name of an offending part (the first one); in every
\* other case, optional keys missing included, it returns a string and
\* raises nothing.
C11_RenderError ==
  last.op = "from" =>
    IF Offending = {}
    THEN last.thrown = NoError
    ELSE LET i == CHOOSE k \in Offending : \A j \in Offending : k <= j
         IN /\ last.thrown.err = "Error"
            /\ last.thrown.msg =
                 (IF route.parts[i].type = "REST" THEN ExpectedArrayFor ELSE ExpectedValueFor)
                 \o route.parts[i].name

\* the token the pattern notation has for a part
NotationOf(part) ==
  CASE part.type = "STRING" -> part.name
    [] part.type = "PARAM" /\ part.required -> <<":">> \o part.name
    [] part.type = "PARAM" /\ ~part.required -> <<":">> \o part.name \o <<"?">>
    [] part.type = "REST" -> <<"*">>

\* C12: toString renders prefix + tokens joined by the delimiter + suffix,
\* one token per part: a literal as itself, a required param as ":name", an
\* optional param as ":name?" and a Rest part as "*".
C12_ToStringPattern ==
  last.op = "toString" =>
    /\ last.thrown = NoError
    /\ last.str = route.opts.prefix
                  \o Join([i \in 1..Len(route.parts) |-> NotationOf(route.parts[i])],
                          route.opts.delimiter)
                  \o route.opts.suffix

\* a builder call on an object of the store that returned a template
BuilderReturned ==
  call.op \in {"extend", "param", "opt", "rest"} /\ call.thrown = NoError

\* the converter an argument names, StrParam when it names none
ConverterOr(arg) == IF arg.kind = "paramType" THEN arg.paramType ELSE "StrParam"

\* the parts the last builder call is to append, from its arguments
Appended ==
  CASE call.op = "extend" -> [i \in 1..Len(call.names) |-> Lit(call.names[i])]
    [] call.op = "param" -> <<ParamPart(call.first.str, TRUE, ConverterOr(call.second))>>
    [] call.op = "opt" -> <<ParamPart(call.first.str, FALSE, ConverterOr(call.second))>>
    [] call.op = "rest" ->
         <<IF call.first.kind = "string"
           THEN RestPart(call.first.str, ConverterOr(call.second))
           ELSE RestPart(<<"r", "e", "s", "t">>, ConverterOr(call.first))>>

Born(i) ==
  [opts |-> store.objs[i].born.opts, parts |-> store.objs[i].born.parts,
   proto |-> store.objs[i].proto]

\* C14: immutability. After any sequence of builder calls on the templates
\* derived from a root, several successors of one predecessor included, and
\* whatever query is made, every template has exactly the opts and parts it
\* had when it was created, and the query returns what it returns on the
\* template as created.
C14_Immutable ==
  /\ \A i \in 1..Len(store.objs) : Deref(store, i) = Born(i)
  /\ (call.op = "match" /\ call.thrown = NoError) =>
       call.res = match(Born(call.this), call.val)
  /\ (call.op = "from" /\ call.thrown # TypeError) =>
       /\ call.thrown = from(Born(call.this), call.params).thrown
       /\ call.str = from(Born(call.this), call.params).str
  /\ (call.op = "toString" /\ call.thrown = NoError) =>
       call.str = toString(Born(call.this)).str

\* C14 happens: two successors, a literal and a param, were derived from the
\* root, and match was then called on the root.
C14_Witness ==
  /\ Len(store.objs) = 3
  /\ Held = {1, 2, 3}
  /\ Len(Deref(store, 2).parts) = 1
  /\ Len(Deref(store, 3).parts) = 1
  /\ Deref(store, 2).parts # Deref(store, 3).parts
  /\ call.op = "match"
  /\ call.this = 1
  /\ call.thrown = NoError

\* the template the last call on the store was made on
Receiver == Deref(store, call.this).parts

IsRestPart(part) == part.type = "REST"

IsOptPart(part) == part.type = "PARAM" /\ ~part.required

\* at most one Rest part, and it is the last; no literal or required param
\* after an optional param
PartOrder(parts) ==
  \A i \in 1..Len(parts), j \in 1..Len(parts) :
    i < j => /\ ~IsRestPart(parts[i])
             /\ IsOptPart(parts[i]) => (IsOptPart(parts[j]) \/ IsRestPart(parts[j]))

\* C15: part order. Every template the builder produced has at most one Rest
\* part, which is its last part, and no literal or required param after an
\* optional param; an extend or param call on a template that has an opt or
\* Rest part, and any builder call on a template that has a Rest part, fails
\* instead of producing a template.
C15_PartOrder ==
  /\ \A i \in 1..Len(store.objs) : PartOrder(Deref(store, i).parts)
  /\ (/\ call.op \in {"extend", "param"}
      /\ \E i \in 1..Len(Receiver) : IsOptPart(Receiver[i]) \/ IsRestPart(Receiver[i])) =>
       call.thrown # NoError /\ call.ret = 0
  /\ (/\ call.op \in {"extend", "param", "opt", "rest"}
      /\ \E i \in 1..Len(Receiver) : IsRestPart(Receiver[i])) =>
       call.thrown # NoError /\ call.ret = 0

\* C15 happens: param was called on a template that ends with an optional
\* param, and the call failed, the store being what it was.
C15_Witness ==
  /\ call.op = "param"
  /\ Receiver # <<>>
  /\ IsOptPart(Receiver[Len(Receiver)])
  /\ call.thrown # NoError
  /\ call.this = Len(store.objs)

\* the names of the param and Rest parts among parts
KeyNames(parts) == {parts[i].name : i \in {j \in 1..Len(parts) : parts[j].type # "STRING"}}

\* the name the last call on the store gives the part it adds
AddedName ==
  IF call.op = "rest" /\ call.first.kind # "string" THEN <<"r", "e", "s", "t">>
  ELSE call.first.str

\* C16: key uniqueness. No template the builder produced has two param or
\* Rest parts of the same name; a param, opt or rest call that would add a
\* name the template already uses is rejected.
C16_KeysUnique ==
  /\ \A k \in 1..Len(store.objs) :
       LET parts == Deref(store, k).parts
       IN \A i \in 1..Len(parts), j \in 1..Len(parts) :
            (i # j /\ parts[i].type # "STRING" /\ parts[j].type # "STRING") =>
              parts[i].name # parts[j].name
  /\ (call.op \in {"param", "opt", "rest"} /\ AddedName \in KeyNames(Receiver)) =>
       call.thrown # NoError /\ call.ret = 0

\* C16 happens: rest was called with the name of the param the template
\* already has, and the call was rejected.
C16_Witness ==
  /\ call.op = "rest"
  /\ call.first.kind = "string"
  /\ call.first.str \in KeyNames(Receiver)
  /\ call.thrown # NoError
  /\ call.ret = 0

\* the last call was parse, or parse after stringify, of an ArrayParam
ArrayParsed == conv.c.name = "ArrayParam" /\ conv.op \in {"parse", "reparse"}

\* C17: ArrayParam(inner, delimiter).parse splits its input by the delimiter
\* and parses each piece with inner.parse; it returns absent if a piece
\* fails, the sequence of the parsed pieces otherwise, and the empty sequence
\* for the empty string, whatever the inner converter; so that
\* parse(stringify([])) = [].
C17_ArrayParse ==
  /\ ArrayParsed =>
       LET pieces == Split(conv.str, conv.c.delimiter)
       IN IF conv.str = <<>> THEN conv.val = Arr(<<>>)
          ELSE IF \E i \in 1..Len(pieces) : Parse(conv.c.inner, pieces[i]) = Undef
          THEN conv.val = Undef
          ELSE conv.val = Arr([i \in 1..Len(pieces) |-> Parse(conv.c.inner, pieces[i])])
  /\ (ArrayParsed /\ conv.op = "reparse" /\ conv.orig = Arr(<<>>)) => conv.val = Arr(<<>>)

\* the last call was parse, or parse after stringify, of DateTimeParam
DateParsed == conv.c.name = "DateTimeParam" /\ conv.op \in {"parse", "reparse"}

\* C18: DateTimeParam.parse reads its input as a decimal count of
\* milliseconds since the epoch: a string of digits parses to the timestamp of
\* that value, so that parse(stringify(d)) is the timestamp equal to d, and a
\* string that is no number parses to absent.
C18_DateRoundTrip ==
  /\ (DateParsed /\ AllDigits(conv.str)) =>
       /\ conv.val.t = "date"
       /\ Len(conv.str) <= MaxLen => conv.val = Date(DigitRun(conv.str, 0))
  /\ (DateParsed /\ conv.op = "reparse") => conv.val = conv.orig
  /\ (DateParsed /\ ~AllDigits(conv.str)) => conv.val = Undef

\* the segments the last match of the earlier API split its string into
LegacySegs == Split(LegacyStrip(legacyRoute.opts, legacyLast.val), <<"/">>)

\* part i is an optional param with a fallback
HasFallback(i) == legacyRoute.parts[i].param /\ legacyRoute.parts[i].required = "string"

\* the parts before part i match the string, and those after it need no segment
RestMatches(i) ==
  /\ LegacyMatch([legacyRoute EXCEPT !.parts = SubSeq(@, 1, i - 1)], legacyLast.val).ok
  /\ \A j \in (i + 1)..Len(legacyRoute.parts) :
       legacyRoute.parts[j].param /\ legacyRoute.parts[j].required # "true"

\* C19: the fallback of opt(name, fallback). When the string has no segment at
\* the position of the optional param (the other parts matching), match
\* succeeds and records the fallback under the name; when it has a non-empty
\* segment there, match records that segment and not the fallback.
C19_LegacyFallback ==
  legacyLast.op = "match" =>
    \A i \in 1..Len(legacyRoute.parts) :
      HasFallback(i) =>
        /\ (i > Len(LegacySegs) /\ RestMatches(i)) =>
             /\ legacyLast.res.ok
             /\ Get(legacyLast.res.ret, legacyRoute.parts[i].name)
                  = Str(legacyRoute.parts[i].fallback)
        /\ (i <= Len(LegacySegs) /\ LegacySegs[i] # <<>> /\ legacyLast.res.ok) =>
             Get(legacyLast.res.ret, legacyRoute.parts[i].name) = Str(LegacySegs[i])

\* C19 happens: a template of a literal and an optional param with a fallback
\* was matched against a string of the one segment, and the fallback recorded.
C19_Witness ==
  /\ legacyLast.op = "match"
  /\ Len(legacyRoute.parts) = 2
  /\ ~legacyRoute.parts[1].param
  /\ HasFallback(2)
  /\ Len(LegacySegs) = 1
  /\ legacyLast.res.ok
  /\ Get(legacyLast.res.ret, legacyRoute.parts[2].name) = Str(<<"1">>)

\* the operations the class of a kind declares or inherits: RestRoute has
\* match, from and toString, OptRoute adds opt and rest, Route adds extend and param
OperationsOf(kind) ==
  {"match", "from", "toString"}
    \cup (IF kind \in {"OptRoute", "Route"} THEN {"opt", "rest"} ELSE {})
    \cup (IF kind = "Route" THEN {"extend", "param"} ELSE {})

\* C20: chainability. The template a chain of builder calls has reached is of
\* the kind its last call determines and exposes every operation of that
\* kind, so that a further call on it resolves.
C20_Chainable ==
  \A method \in OperationsOf(Kind(route.proto)) : Exposes(route.proto, method)

\* every param and the Rest of the template use StrParam
AllStrParam ==
  \A i \in 1..Len(route.parts) :
    route.parts[i].type = "STRING" \/ route.parts[i].paramType = "StrParam"

\* C21: reverse round trip. For a template whose params and Rest all use
\* StrParam and a path on which match succeeds, from of the object match
\* returned renders that path again.
C21_ReverseRoundTrip ==
  (MatchRan /\ last.res.ok /\ AllStrParam) =>
    from(route, last.res.ret) = [thrown |-> NoError, str |-> last.val]

====
